---------------------------- MODULE Spec2Model ----------------------------
(***************************************************************************)
(* Model of the dense Matrix container and of multiply_naive and           *)
(* multiply_tile of hw3/Sean20405/matrix.cpp.                              *)
(*                                                                         *)
(* The heap is explicit: a Matrix holds rows, cols and a pointer to a      *)
(* buffer, so aliasing, leaks and accesses outside a buffer can be stated. *)
(* Elements are bounded naturals (exact arithmetic, no rounding).          *)
(***************************************************************************)
EXTENDS Integers, Sequences, FiniteSets, TLC

VARIABLES mats, heap, last, copyOf, call

vars == <<mats, heap, last, copyOf, call>>

(***************************** bounds **************************************)
NumAddr  == 3   \* heap cells a buffer can be allocated in
MaxDim   == 2   \* largest row or column count of a matrix
MaxElems == 2   \* largest element count of a matrix a caller constructs
MaxVal   == 1   \* largest element value given by a caller
MaxTile  == 3   \* largest tile size given by a caller

\* the two matrix objects, X and Y, of the binary container operations; for
\* the multiplication calls object 1 is A and object 2 is B
Obj  == {1, 2}
Addr == 1 .. NumAddr
Val  == 0 .. MaxVal

\* buffers the container operations hold at a time: one for each object
MaxBufs == Cardinality(Obj)

NULL == 0

Min(a, b) == IF a < b THEN a ELSE b

RECURSIVE Range(_, _, _)
\* the values a loop  for (x = lo; x < hi; x += step)  gives its variable
Range(lo, hi, step) ==
    IF lo < hi THEN <<lo>> \o Range(lo + step, hi, step) ELSE <<>>

RECURSIVE FlatMap(_, _)
\* the concatenation of what a loop body F yields for each value of s
FlatMap(F(_), s) ==
    IF s = <<>> THEN <<>> ELSE F(Head(s)) \o FlatMap(F, Tail(s))

Zeros(n) == [x \in 1 .. n |-> 0]

SeqsUpTo(S, n) == UNION {[1 .. len -> S] : len \in 0 .. n}

(***************************** the heap ************************************)
FreeCell == [used |-> FALSE, buf |-> <<>>]

FreeAddrs(h) == {a \in Addr : ~h[a].used}

\* new double[n]: some cell that is not in use (the lowest, the choice of
\* address is not observable by the program)
NewAddr(h) == CHOOSE a \in FreeAddrs(h) : \A b \in FreeAddrs(h) : a <= b

\* delete[] p
Delete(h, p) == [h EXCEPT ![p] = FreeCell]

(***************************** Matrix **************************************)
NoMatrix == [live |-> FALSE, nrow |-> 0, ncol |-> 0, data |-> NULL]

\* the data member before a constructor body runs: the class declaration
\* gives it no buffer
DefaultData == NULL

\* the members after the constructor's initializer list, before its body
NewObject(num_row, num_col) ==
    [live |-> TRUE, nrow |-> num_row, ncol |-> num_col, data |-> DefaultData]

\* operator() with the row stride taken from the row count
IndexByRows(m, row, col) == m.nrow * row + col

\* operator(): the linear offset of (row, col)
Index(m, row, col) == m.ncol * row + col

\* whether data[Index(m, row, col)] is an element of m's buffer
InBuffer(h, m, row, col) ==
    /\ m.data # NULL
    /\ h[m.data].used
    /\ Index(m, row, col) < Len(h[m.data].buf)

\* reading m(row, col); g is what a read outside the buffer yields
Load(h, m, row, col, g) ==
    IF InBuffer(h, m, row, col)
    THEN h[m.data].buf[Index(m, row, col) + 1]
    ELSE g

\* m(row, col) = v; a write outside the buffer does not reach a modelled cell
Store(h, m, row, col, v) ==
    IF InBuffer(h, m, row, col)
    THEN [h EXCEPT ![m.data].buf[Index(m, row, col) + 1] = v]
    ELSE h

\* reset_buffer sizing the buffer by the row count alone
reset_buffer_RowsOnly(h, m, nrow, ncol) ==
    LET h1       == IF m.data # NULL THEN Delete(h, m.data) ELSE h
        nelement == nrow
        p        == NewAddr(h1)
    IN  IF nelement # 0
        THEN [heap   |-> [h1 EXCEPT ![p] = [used |-> TRUE, buf |-> Zeros(nelement)]],
              mat    |-> [m EXCEPT !.data = p, !.nrow = nrow, !.ncol = ncol],
              allocs |-> 1]
        ELSE [heap   |-> h1,
              mat    |-> [m EXCEPT !.data = NULL, !.nrow = nrow, !.ncol = ncol],
              allocs |-> 0]

\* Matrix::reset_buffer: the heap, the object and the number of new[] calls
reset_buffer(h, m, nrow, ncol) ==
    LET h1       == IF m.data # NULL THEN Delete(h, m.data) ELSE h
        nelement == nrow * ncol
        p        == NewAddr(h1)
    IN  IF nelement # 0
        THEN [heap   |-> [h1 EXCEPT ![p] = [used |-> TRUE, buf |-> Zeros(nelement)]],
              mat    |-> [m EXCEPT !.data = p, !.nrow = nrow, !.ncol = ncol],
              allocs |-> 1]
        ELSE [heap   |-> h1,
              mat    |-> [m EXCEPT !.data = NULL, !.nrow = nrow, !.ncol = ncol],
              allocs |-> 0]

\* the allocation of reset_buffer succeeds (no std::bad_alloc) in a heap
\* that holds at most limit buffers
CanReset(h, m, nrow, ncol, limit) ==
    \/ nrow * ncol = 0
    \/ m.data # NULL
    \/ Cardinality(Addr \ FreeAddrs(h)) < limit

\* the (i, j) pairs of  for (i < nrow) for (j < ncol)
Cells(nrow, ncol) ==
    FlatMap(LAMBDA i : FlatMap(LAMBDA j : << <<i, j>> >>, Range(0, ncol, 1)),
            Range(0, nrow, 1))

RECURSIVE AssignLoop(_, _, _, _, _)
\* the loop of operator=(vector): (*this)(i, j) = vec[k]; ++k
AssignLoop(h, m, cells, vec, k) ==
    IF cells = <<>>
    THEN h
    ELSE AssignLoop(Store(h, m, Head(cells)[1], Head(cells)[2], vec[k + 1]),
                    m, Tail(cells), vec, k + 1)

\* Matrix::operator=(std::vector<double> const &)
AssignVector(h, m, vec) ==
    IF m.nrow * m.ncol # Len(vec)
    THEN [heap |-> h, outcome |-> "ShapeMismatch", writes |-> 0]
    ELSE [heap    |-> AssignLoop(h, m, Cells(m.nrow, m.ncol), vec, 0),
          outcome |-> "ok",
          writes  |-> Len(Cells(m.nrow, m.ncol))]

RECURSIVE CopyLoop(_, _, _, _)
\* the loop of the copy operations: (*this)(i, j) = other(i, j)
CopyLoop(h, this, other, cells) ==
    IF cells = <<>>
    THEN h
    ELSE CopyLoop(Store(h, this, Head(cells)[1], Head(cells)[2],
                        Load(h, other, Head(cells)[1], Head(cells)[2], 0)),
                  this, other, Tail(cells))

\* Matrix::Matrix(Matrix const &)
CopyConstructed(h, other) ==
    LET r == reset_buffer(h, NewObject(other.nrow, other.ncol),
                          other.nrow, other.ncol)
    IN  [heap |-> CopyLoop(r.heap, r.mat, other, Cells(r.mat.nrow, r.mat.ncol)),
         mat  |-> r.mat]

\* a copy assignment that takes over the other's pointer (shallow copy)
CopyAssignedShallow(h, this, other) ==
    [heap |-> h,
     mat  |-> [this EXCEPT !.nrow = other.nrow, !.ncol = other.ncol,
                           !.data = other.data]]

\* Matrix::operator=(Matrix const &), this and other distinct objects
CopyAssigned(h, this, other) ==
    LET r == IF this.nrow # other.nrow \/ this.ncol # other.ncol
             THEN reset_buffer(h, this, other.nrow, other.ncol)
             ELSE [heap |-> h, mat |-> this, allocs |-> 0]
    IN  [heap |-> CopyLoop(r.heap, r.mat, other, Cells(r.mat.nrow, r.mat.ncol)),
         mat  |-> r.mat]

\* whether the reset_buffer of the copy assignment can allocate
CanCopyAssign(h, this, other) ==
    \/ this.nrow = other.nrow /\ this.ncol = other.ncol
    \/ CanReset(h, this, other.nrow, other.ncol, MaxBufs)

\* the move operations without the swap of the data pointers
SwapMembersNoData(this, other) ==
    [this  |-> [this  EXCEPT !.nrow = other.nrow, !.ncol = other.ncol],
     other |-> [other EXCEPT !.nrow = this.nrow, !.ncol = this.ncol]]

\* the three std::swap calls of the move operations
SwapMembers(this, other) ==
    [this  |-> [this  EXCEPT !.nrow = other.nrow, !.ncol = other.ncol,
                             !.data = other.data],
     other |-> [other EXCEPT !.nrow = this.nrow, !.ncol = this.ncol,
                             !.data = this.data]]

\* Matrix::Matrix(Matrix &&)
MoveConstructed(h, other) ==
    LET r == reset_buffer(h, NewObject(other.nrow, other.ncol), 0, 0)
        s == SwapMembers(r.mat, other)
    IN  [heap |-> r.heap, this |-> s.this, other |-> s.other]

\* Matrix::operator=(Matrix &&), this and other distinct objects
MoveAssigned(this, other) == SwapMembers(this, other)

\* Matrix::to_vector: std::vector<double>(data, data + nrow * ncol)
to_vector(h, m) ==
    [x \in 1 .. m.nrow * m.ncol |->
        IF m.data # NULL /\ x <= Len(h[m.data].buf) THEN h[m.data].buf[x] ELSE -1]

(**************************** multiplication *****************************)
\* An execution of a multiplication loop nest: the heap, the index triples
\* the accumulate statement ran with (in order), the operator() calls made
\* (matrix, row, col), whether one of them fell outside its buffer, and tmp.
StartRun(h) == [heap |-> h, steps |-> <<>>, acc |-> {}, oob |-> FALSE, tmp |-> 0]

\* the (i, k, j) of the loop nest of multiply_naive, in execution order
NaiveEvents(mat1, mat2) ==
    FlatMap(LAMBDA i :
      FlatMap(LAMBDA k :
        FlatMap(LAMBDA j : << <<"acc", i, k, j>> >>, Range(0, mat1.ncol, 1)),
        Range(0, mat2.ncol, 1)),
      Range(0, mat1.nrow, 1))

\* the accumulate statement reading mat2 transposed: mat1(i, j) * mat2(k, j)
NaiveStepTransposed(x, mat1, mat2, ret, e, g) ==
    LET i == e[2]
        k == e[3]
        j == e[4]
        v == Load(x.heap, ret, i, k, g)
               + Load(x.heap, mat1, i, j, g) * Load(x.heap, mat2, k, j, g)
    IN  [x EXCEPT !.heap  = Store(x.heap, ret, i, k, v),
                  !.steps = Append(x.steps, <<i, k, j>>),
                  !.acc   = x.acc \cup {<<"ret", i, k>>, <<"mat1", i, j>>,
                                        <<"mat2", k, j>>},
                  !.oob   = \/ x.oob
                            \/ ~InBuffer(x.heap, ret, i, k)
                            \/ ~InBuffer(x.heap, mat1, i, j)
                            \/ ~InBuffer(x.heap, mat2, k, j)]

\* ret(i, k) += mat1(i, j) * mat2(j, k)
NaiveStep(x, mat1, mat2, ret, e, g) ==
    LET i == e[2]
        k == e[3]
        j == e[4]
        v == Load(x.heap, ret, i, k, g)
               + Load(x.heap, mat1, i, j, g) * Load(x.heap, mat2, j, k, g)
    IN  [x EXCEPT !.heap  = Store(x.heap, ret, i, k, v),
                  !.steps = Append(x.steps, <<i, k, j>>),
                  !.acc   = x.acc \cup {<<"ret", i, k>>, <<"mat1", i, j>>,
                                        <<"mat2", j, k>>},
                  !.oob   = \/ x.oob
                            \/ ~InBuffer(x.heap, ret, i, k)
                            \/ ~InBuffer(x.heap, mat1, i, j)
                            \/ ~InBuffer(x.heap, mat2, j, k)]

RECURSIVE NaiveRun(_, _, _, _, _, _)
NaiveRun(x, mat1, mat2, ret, events, g) ==
    IF events = <<>>
    THEN x
    ELSE NaiveRun(NaiveStep(x, mat1, mat2, ret, Head(events), g),
                  mat1, mat2, ret, Tail(events), g)

\* multiply_naive up to its return statement; g is the value of a read
\* outside a buffer
multiply_naive(h, mat1, mat2, g) ==
    IF mat1.ncol # mat2.nrow
    THEN [outcome |-> "DimensionMismatch", heap |-> h, ret |-> NoMatrix,
          allocs |-> 0, steps |-> <<>>, acc |-> {}, oob |-> FALSE]
    ELSE LET r == reset_buffer(h, NewObject(mat1.nrow, mat2.ncol),
                               mat1.nrow, mat2.ncol)
             x == NaiveRun(StartRun(r.heap), mat1, mat2, r.mat,
                           NaiveEvents(mat1, mat2), g)
         IN  [outcome |-> "ok", heap |-> x.heap, ret |-> r.mat,
              allocs |-> r.allocs, steps |-> x.steps, acc |-> x.acc,
              oob |-> x.oob]

\* the loop nest of multiply_tile, in execution order: <<"tmp", i, k, 0>> is
\* the statement  tmp = mat1(i, k)  and <<"acc", i, k, j>> the accumulate
TileEvents(mat1_nrow, mat1_ncol, mat2_ncol, tile_size) ==
    FlatMap(LAMBDA tile_i :
      FlatMap(LAMBDA tile_k :
        FlatMap(LAMBDA tile_j :
          LET tile_i_end == Min(tile_i + tile_size, mat1_nrow)
              tile_k_end == Min(tile_k + tile_size, mat2_ncol)
              tile_j_end == Min(tile_j + tile_size, mat1_ncol)
          IN  FlatMap(LAMBDA i :
                FlatMap(LAMBDA k :
                  << <<"tmp", i, k, 0>> >> \o
                  FlatMap(LAMBDA j : << <<"acc", i, k, j>> >>,
                          Range(tile_j, tile_j_end, 1)),
                  Range(tile_k, tile_k_end, 1)),
                Range(tile_i, tile_i_end, 1)),
          Range(0, mat1_ncol, tile_size)),
        Range(0, mat2_ncol, tile_size)),
      Range(0, mat1_nrow, tile_size))

\* double tmp = mat1(i, k);   and   ret(i, j) += tmp * mat2(k, j);
TileStep(x, mat1, mat2, ret, e, g) ==
    LET i == e[2]
        k == e[3]
        j == e[4]
        v == Load(x.heap, ret, i, j, g) + x.tmp * Load(x.heap, mat2, k, j, g)
    IN  IF e[1] = "tmp"
        THEN [x EXCEPT !.tmp = Load(x.heap, mat1, i, k, g),
                       !.acc = x.acc \cup {<<"mat1", i, k>>},
                       !.oob = x.oob \/ ~InBuffer(x.heap, mat1, i, k)]
        ELSE [x EXCEPT !.heap  = Store(x.heap, ret, i, j, v),
                       !.steps = Append(x.steps, <<i, k, j>>),
                       !.acc   = x.acc \cup {<<"ret", i, j>>, <<"mat2", k, j>>},
                       !.oob   = \/ x.oob
                                 \/ ~InBuffer(x.heap, ret, i, j)
                                 \/ ~InBuffer(x.heap, mat2, k, j)]

RECURSIVE TileRun(_, _, _, _, _, _)
TileRun(x, mat1, mat2, ret, events, g) ==
    IF events = <<>>
    THEN x
    ELSE TileRun(TileStep(x, mat1, mat2, ret, Head(events), g),
                 mat1, mat2, ret, Tail(events), g)

\* multiply_tile constructing the result before it checks the dimensions:
\* on a mismatch the result is destroyed again while the exception unwinds
multiply_tile_LateCheck(h, mat1, mat2, tile_size, g) ==
    LET r == reset_buffer(h, NewObject(mat1.nrow, mat2.ncol), mat1.nrow, mat2.ncol)
        x == TileRun(StartRun(r.heap), mat1, mat2, r.mat,
                     TileEvents(mat1.nrow, mat1.ncol, mat2.ncol, tile_size), g)
    IN  IF mat1.ncol # mat2.nrow
        THEN [outcome |-> "DimensionMismatch", heap |-> h, ret |-> NoMatrix,
              allocs |-> r.allocs, steps |-> <<>>, acc |-> {}, oob |-> FALSE]
        ELSE [outcome |-> "ok", heap |-> x.heap, ret |-> r.mat,
              allocs |-> r.allocs, steps |-> x.steps, acc |-> x.acc,
              oob |-> x.oob]

\* multiply_tile up to its return statement; g is the value of a read
\* outside a buffer
multiply_tile(h, mat1, mat2, tile_size, g) ==
    IF mat1.ncol # mat2.nrow
    THEN [outcome |-> "DimensionMismatch", heap |-> h, ret |-> NoMatrix,
          allocs |-> 0, steps |-> <<>>, acc |-> {}, oob |-> FALSE]
    ELSE LET mat1_nrow == mat1.nrow
             mat1_ncol == mat1.ncol
             mat2_ncol == mat2.ncol
             r == reset_buffer(h, NewObject(mat1_nrow, mat2_ncol),
                               mat1_nrow, mat2_ncol)
             x == TileRun(StartRun(r.heap), mat1, mat2, r.mat,
                          TileEvents(mat1_nrow, mat1_ncol, mat2_ncol, tile_size), g)
         IN  [outcome |-> "ok", heap |-> x.heap, ret |-> r.mat,
              allocs |-> r.allocs, steps |-> x.steps, acc |-> x.acc,
              oob |-> x.oob]

(************************* container operations ****************************)
NoOp == [op |-> "none", dst |-> 0, src |-> 0, outcome |-> "ok",
         rows |-> 0, cols |-> 0, values |-> <<>>, writes |-> 0]

NoCall == [fn |-> "none", a |-> 0, b |-> 0, tile |-> 0, outcome |-> "none",
           ret |-> NoMatrix, allocs |-> 0, steps |-> <<>>, acc |-> {},
           oob |-> FALSE]

\* forget every copy relation one of the objects in S takes part in
Forget(c, S) ==
    [o \in Obj |-> IF o \in S \/ c[o] \in S THEN 0 ELSE c[o]]

Init ==
    /\ mats = [o \in Obj |-> NoMatrix]
    /\ heap = [a \in Addr |-> FreeCell]
    /\ last = NoOp
    /\ copyOf = [o \in Obj |-> 0]
    /\ call = NoCall

\* Matrix(num_row, num_col)
Construct(o, num_row, num_col) ==
    /\ ~mats[o].live
    /\ num_row * num_col <= MaxElems
    /\ CanReset(heap, NewObject(num_row, num_col), num_row, num_col, MaxBufs)
    /\ LET r == reset_buffer(heap, NewObject(num_row, num_col), num_row, num_col)
       IN  /\ heap' = r.heap
           /\ mats' = [mats EXCEPT ![o] = r.mat]
    /\ last' = [NoOp EXCEPT !.op = "construct", !.dst = o,
                            !.rows = num_row, !.cols = num_col]
    /\ copyOf' = Forget(copyOf, {o})
    /\ UNCHANGED call

\* Matrix(num_row, num_col, vec); when operator= throws the object never
\* comes to life and its destructor does not run
ConstructFromVector(o, num_row, num_col, vec) ==
    /\ ~mats[o].live
    /\ num_row * num_col <= MaxElems
    /\ CanReset(heap, NewObject(num_row, num_col), num_row, num_col, MaxBufs)
    /\ LET r == reset_buffer(heap, NewObject(num_row, num_col), num_row, num_col)
           a == AssignVector(r.heap, r.mat, vec)
       IN  /\ heap' = a.heap
           /\ mats' = IF a.outcome = "ok" THEN [mats EXCEPT ![o] = r.mat] ELSE mats
           /\ last' = IF a.outcome = "ok"
                      THEN [NoOp EXCEPT !.op = "construct_vector", !.dst = o,
                                        !.rows = num_row, !.cols = num_col,
                                        !.values = vec, !.writes = a.writes]
                      ELSE [NoOp EXCEPT !.op = "construct_vector", !.dst = o,
                                        !.outcome = a.outcome,
                                        !.writes = a.writes]
    /\ copyOf' = Forget(copyOf, {o})
    /\ UNCHANGED call

\* Matrix(other) into the fresh object o
CopyConstruct(o, src) ==
    /\ ~mats[o].live
    /\ mats[src].live
    /\ CanReset(heap, NewObject(0, 0), mats[src].nrow, mats[src].ncol, MaxBufs)
    /\ LET r == CopyConstructed(heap, mats[src])
       IN  /\ heap' = r.heap
           /\ mats' = [mats EXCEPT ![o] = r.mat]
    /\ last' = [NoOp EXCEPT !.op = "copy_construct", !.dst = o, !.src = src]
    /\ copyOf' = [Forget(copyOf, {o}) EXCEPT ![o] = src]
    /\ UNCHANGED call

\* o = other
CopyAssign(o, src) ==
    /\ mats[o].live
    /\ mats[src].live
    /\ IF o = src
       THEN UNCHANGED <<heap, mats, copyOf>>
       ELSE /\ CanCopyAssign(heap, mats[o], mats[src])
            /\ LET r == CopyAssigned(heap, mats[o], mats[src])
               IN  /\ heap' = r.heap
                   /\ mats' = [mats EXCEPT ![o] = r.mat]
            /\ copyOf' = [Forget(copyOf, {o}) EXCEPT ![o] = src]
    /\ last' = [NoOp EXCEPT !.op = "copy_assign", !.dst = o, !.src = src]
    /\ UNCHANGED call

\* Matrix(std::move(other)) into the fresh object o
MoveConstruct(o, src) ==
    /\ ~mats[o].live
    /\ mats[src].live
    /\ LET r == MoveConstructed(heap, mats[src])
       IN  /\ heap' = r.heap
           /\ mats' = [mats EXCEPT ![o] = r.this, ![src] = r.other]
    /\ last' = [NoOp EXCEPT !.op = "move_construct", !.dst = o, !.src = src]
    /\ copyOf' = Forget(copyOf, {o, src})
    /\ UNCHANGED call

\* o = std::move(other)
MoveAssign(o, src) ==
    /\ mats[o].live
    /\ mats[src].live
    /\ IF o = src
       THEN UNCHANGED <<mats, copyOf>>
       ELSE /\ LET r == MoveAssigned(mats[o], mats[src])
               IN  mats' = [mats EXCEPT ![o] = r.this, ![src] = r.other]
            /\ copyOf' = Forget(copyOf, {o, src})
    /\ last' = [NoOp EXCEPT !.op = "move_assign", !.dst = o, !.src = src]
    /\ UNCHANGED <<heap, call>>

\* m[i, j] = val with (i, j) inside the matrix, as the contract demands
SetItem(o, i, j, val) ==
    /\ mats[o].live
    /\ i < mats[o].nrow
    /\ j < mats[o].ncol
    /\ heap' = Store(heap, mats[o], i, j, val)
    /\ last' = [NoOp EXCEPT !.op = "set", !.dst = o, !.writes = 1]
    /\ UNCHANGED <<mats, copyOf, call>>

\* Matrix::~Matrix
Destroy(o) ==
    /\ mats[o].live
    /\ heap' = reset_buffer(heap, mats[o], 0, 0).heap
    /\ mats' = [mats EXCEPT ![o] = NoMatrix]
    /\ last' = [NoOp EXCEPT !.op = "destroy", !.dst = o]
    /\ copyOf' = Forget(copyOf, {o})
    /\ UNCHANGED call

Next ==
    \/ \E o \in Obj, r \in 0 .. MaxDim, c \in 0 .. MaxDim : Construct(o, r, c)
    \/ \E o \in Obj, r \in 0 .. MaxDim, c \in 0 .. MaxDim,
          vec \in SeqsUpTo(Val, MaxElems) :
            ConstructFromVector(o, r, c, vec)
    \/ \E o \in Obj, src \in Obj : CopyConstruct(o, src)
    \/ \E o \in Obj, src \in Obj : CopyAssign(o, src)
    \/ \E o \in Obj, src \in Obj : MoveConstruct(o, src)
    \/ \E o \in Obj, src \in Obj : MoveAssign(o, src)
    \/ \E o \in Obj, i \in 0 .. MaxDim, j \in 0 .. MaxDim, val \in Val :
            SetItem(o, i, j, val)
    \/ \E o \in Obj : Destroy(o)

Spec == Init /\ [][Next]_vars

(********************** the multiplication calls ***************************)
\* the caller's operands: A in object 1 and B in object 2, each built by
\* Matrix(rows, cols, values)
InitMul ==
    \E r1 \in 0 .. MaxDim, c1 \in 0 .. MaxDim,
       r2 \in 0 .. MaxDim, c2 \in 0 .. MaxDim :
      /\ r1 * c1 <= MaxElems
      /\ r2 * c2 <= MaxElems
      /\ \E v1 \in [1 .. r1 * c1 -> Val], v2 \in [1 .. r2 * c2 -> Val] :
        LET ra == reset_buffer([a \in Addr |-> FreeCell], NewObject(r1, c1), r1, c1)
            ha == AssignVector(ra.heap, ra.mat, v1).heap
            rb == reset_buffer(ha, NewObject(r2, c2), r2, c2)
            hb == AssignVector(rb.heap, rb.mat, v2).heap
        IN  /\ mats = [o \in Obj |-> IF o = 1 THEN ra.mat ELSE rb.mat]
            /\ heap = hb
    /\ last = NoOp
    /\ copyOf = [o \in Obj |-> 0]
    /\ call = NoCall

\* The call's effect on the caller.  An access outside a buffer is undefined
\* behaviour: the read yields any value g, the write does not reach a
\* modelled cell, and the process either goes on or is killed (fault).
Finish(fn, a, b, tile_size, r, fault) ==
    IF r.oob /\ fault
    THEN /\ call' = [NoCall EXCEPT !.fn = fn, !.a = a, !.b = b,
                                   !.tile = tile_size, !.outcome = "crash",
                                   !.oob = TRUE]
         /\ UNCHANGED heap
    ELSE /\ call' = [fn |-> fn, a |-> a, b |-> b, tile |-> tile_size,
                     outcome |-> r.outcome, ret |-> r.ret, allocs |-> r.allocs,
                     steps |-> r.steps, acc |-> r.acc, oob |-> r.oob]
         /\ heap' = r.heap

\* C = multiply_naive(A, B)
MultiplyNaive(a, b) ==
    /\ call.fn = "none"
    /\ mats[a].live /\ mats[b].live
    /\ FreeAddrs(heap) # {}
    /\ \E g \in Val, fault \in BOOLEAN :
         Finish("multiply_naive", a, b, 0,
                multiply_naive(heap, mats[a], mats[b], g), fault)
    /\ UNCHANGED <<mats, last, copyOf>>

\* C = multiply_tile(A, B, tile_size)
MultiplyTile(a, b, tile_size) ==
    /\ call.fn = "none"
    /\ mats[a].live /\ mats[b].live
    /\ FreeAddrs(heap) # {}
    /\ \E g \in Val, fault \in BOOLEAN :
         Finish("multiply_tile", a, b, tile_size,
                multiply_tile(heap, mats[a], mats[b], tile_size, g), fault)
    /\ UNCHANGED <<mats, last, copyOf>>

NextMul ==
    \/ \E a \in Obj, b \in Obj : MultiplyNaive(a, b)
    \/ \E a \in Obj, b \in Obj, tile_size \in 1 .. MaxTile :
            MultiplyTile(a, b, tile_size)

SpecMul == InitMul /\ [][NextMul]_vars

(***************************** reference **********************************)
\* element (i, j) of the row-major layout of the data model
Elem(h, m, i, j) == h[m.data].buf[i * m.ncol + j + 1]

RECURSIVE DotProduct(_, _, _, _, _, _)
\* sum for j in 0 .. n-1 of A[i, j] * B[j, k]
DotProduct(h, A, B, i, k, n) ==
    IF n = 0
    THEN 0
    ELSE DotProduct(h, A, B, i, k, n - 1) + Elem(h, A, i, n - 1) * Elem(h, B, n - 1, k)

\* the flat sequence of the product A * B
Product(h, A, B) ==
    [x \in 1 .. A.nrow * B.ncol |->
        DotProduct(h, A, B, (x - 1) \div B.ncol, (x - 1) % B.ncol, A.ncol)]

\* m owns a buffer of exactly rows*cols elements, and none when that is 0
ValidMatrix(h, m) ==
    IF m.nrow * m.ncol = 0
    THEN m.data = NULL
    ELSE /\ m.data \in Addr
         /\ h[m.data].used
         /\ Len(h[m.data].buf) = m.nrow * m.ncol

UsedAddrs(h) == Addr \ FreeAddrs(h)

CallA == mats[call.a]
CallB == mats[call.b]
Called(fn) == call.fn = fn /\ CallA.ncol = CallB.nrow

(******************************* claims ************************************)
\* C1: for every A, B with A.cols = B.rows and every tileSize >= 1,
\* multiply_tile returns a matrix of shape (A.rows, B.cols) holding the
\* product A * B, the same as multiply_naive.
C1_TileIsProduct ==
    Called("multiply_tile") =>
        /\ call.outcome = "ok"
        /\ call.ret.nrow = CallA.nrow
        /\ call.ret.ncol = CallB.ncol
        /\ to_vector(heap, call.ret) = Product(heap, CallA, CallB)

C3_NaiveIsProduct ==
    Called("multiply_naive") =>
        /\ call.outcome = "ok"
        /\ call.ret.live
        /\ call.ret.nrow = CallA.nrow
        /\ call.ret.ncol = CallB.ncol
        /\ ValidMatrix(heap, call.ret)
        /\ to_vector(heap, call.ret) = Product(heap, CallA, CallB)
        /\ CallA.ncol = 0 => to_vector(heap, call.ret) = Zeros(CallA.nrow * CallB.ncol)

C3_Witness ==
    /\ Called("multiply_naive")
    /\ call.outcome = "ok"
    /\ CallA.nrow # CallA.ncol
    /\ CallB.ncol # CallA.ncol
    /\ \E x \in 1 .. call.ret.nrow * call.ret.ncol : to_vector(heap, call.ret)[x] >= 2

\* C4: multiply_naive and multiply_tile fail with the dimension-mismatch
\* error whenever A.cols # B.rows, before anything else: no result matrix
\* was allocated, no accumulate statement ran, A and B are unchanged.
C4_MismatchFailsFirst ==
    [][(call'.fn # "none" /\ mats[call'.a].ncol # mats[call'.b].nrow) =>
          /\ call'.outcome = "DimensionMismatch"
          /\ call'.allocs = 0
          /\ ~call'.ret.live
          /\ call'.steps = <<>>
          /\ call'.acc = {}
          /\ heap' = heap
          /\ mats' = mats]_vars

C4_Witness ==
    /\ call.fn = "multiply_tile"
    /\ call.outcome = "DimensionMismatch"
    /\ CallA.data # NULL
    /\ CallB.data # NULL

\* C5: Matrix(rows, cols, values) with values.length # rows*cols fails with
\* the shape-mismatch error: no matrix is produced, no element was written
\* from values, and no buffer the failed construction allocated stays
\* allocated.
C5_FailedConstructionLeavesNothing ==
    [][\A o \in Obj, r \in 0 .. MaxDim, c \in 0 .. MaxDim,
          vec \in SeqsUpTo(Val, MaxElems) :
          (Len(vec) # r * c /\ ConstructFromVector(o, r, c, vec)) =>
              /\ last'.outcome = "ShapeMismatch"
              /\ ~mats'[o].live
              /\ last'.writes = 0
              /\ UsedAddrs(heap') \subseteq UsedAddrs(heap)]_vars

\* C6: after any sequence of container operations every live matrix has a
\* buffer of exactly rows*cols elements, and has none exactly when
\* rows*cols = 0.
C6_BufferMatchesShape ==
    \A o \in Obj : mats[o].live => ValidMatrix(heap, mats[o])

C6_Witness ==
    /\ last.op = "move_assign"
    /\ last.dst # last.src
    /\ mats[last.dst].data # NULL
    /\ mats[last.src].data = NULL
    /\ mats[last.src].ncol > 0

\* C7: a copy made by copy construction or copy assignment has the rows,
\* cols and elements of the original in a buffer of its own; a later element
\* set on the copy leaves the original unchanged, and a later set on the
\* original leaves the copy unchanged.
C7_CopyIsIndependent ==
    /\ [][(last'.op \in {"copy_construct", "copy_assign"} /\ last'.dst # last'.src) =>
            LET orig == last'.src
                copy == last'.dst
            IN  /\ mats'[copy].live
                /\ mats'[copy].nrow = mats[orig].nrow
                /\ mats'[copy].ncol = mats[orig].ncol
                /\ to_vector(heap', mats'[copy]) = to_vector(heap, mats[orig])
                /\ mats'[orig] = mats[orig]
                /\ to_vector(heap', mats'[orig]) = to_vector(heap, mats[orig])
                /\ mats'[copy].data # NULL => mats'[copy].data # mats'[orig].data]_vars
    /\ [][last'.op = "set" =>
            \A o \in Obj :
              (o # last'.dst /\ (copyOf[o] = last'.dst \/ copyOf[last'.dst] = o)) =>
                  /\ mats'[o] = mats[o]
                  /\ to_vector(heap', mats'[o]) = to_vector(heap, mats[o])]_vars

C7_Witness ==
    /\ last.op = "set"
    /\ copyOf[last.dst] # 0
    /\ mats[last.dst].nrow * mats[last.dst].ncol >= 2
    /\ to_vector(heap, mats[last.dst]) # to_vector(heap, mats[copyOf[last.dst]])

\* C8: Matrix(rows, cols, v) with v of length rows*cols exports v element
\* for element, element (i, j) being v[i*cols+j]; Matrix(rows, cols) exports
\* rows*cols zeros.
C8_RoundTrip ==
    /\ (last.op = "construct_vector" /\ last.outcome = "ok") =>
          LET m == mats[last.dst]
          IN  /\ Len(last.values) = last.rows * last.cols
              /\ m.live /\ m.nrow = last.rows /\ m.ncol = last.cols
              /\ to_vector(heap, m) = last.values
              /\ \A i \in 0 .. m.nrow - 1, j \in 0 .. m.ncol - 1 :
                    Load(heap, m, i, j, -1) = last.values[i * last.cols + j + 1]
    /\ last.op = "construct" =>
          LET m == mats[last.dst]
          IN  /\ m.live /\ m.nrow = last.rows /\ m.ncol = last.cols
              /\ to_vector(heap, m) = Zeros(last.rows * last.cols)

C8_Witness ==
    /\ last.op = "construct_vector"
    /\ last.outcome = "ok"
    /\ last.rows = 2
    /\ to_vector(heap, mats[last.dst]) = <<0, 1>>

\* C9: during multiply_naive(A, B) or multiply_tile(A, B, tileSize) with
\* A.cols = B.rows every element access on A, B and the result uses a
\* (row, col) inside the accessed matrix, so none falls outside its buffer.
C9_AccessesInBounds ==
    (call.fn # "none" /\ CallA.ncol = CallB.nrow) =>
        /\ ~call.oob
        /\ \A x \in call.acc :
              LET m == IF x[1] = "ret" THEN call.ret
                       ELSE IF x[1] = "mat1" THEN CallA ELSE CallB
              IN  x[2] < m.nrow /\ x[3] < m.ncol

\* C10: for every A, B with A.cols = B.rows and every tileSize >= 1,
\* multiply_tile runs to completion and has then executed the accumulate
\* statement exactly once for each index triple of
\* [0, A.rows) x [0, B.cols) x [0, A.cols).
C10_TileCompletes ==
    Called("multiply_tile") =>
        /\ call.outcome = "ok"
        /\ Len(call.steps) = CallA.nrow * CallB.ncol * CallA.ncol
        /\ {call.steps[x] : x \in 1 .. Len(call.steps)}
             = (0 .. CallA.nrow - 1) \X (0 .. CallB.ncol - 1) \X (0 .. CallA.ncol - 1)

=============================================================================
